---------------------------- MODULE Spec2Model ----------------------------
(***************************************************************************)
(* A model of seller-apis: src/seller.py (Ozon) and src/market.py (Yandex). *)
(*                                                                         *)
(* Strings whose characters the code inspects (quantities, prices) are     *)
(* sequences of one-character strings.  Identifiers ("Код", offer_id,      *)
(* shopSku) are only ever compared for equality, so they are naturals that *)
(* stand for pairwise distinct strings.  The feed's keys are transliterated *)
(* (Код -> Kod, Количество -> Kolichestvo, Цена -> Tsena).                  *)
(*                                                                         *)
(* A call that can raise returns [raised, value]: raised is "none" or the  *)
(* exception's class name, and value is what the call returned.            *)
(***************************************************************************)
EXTENDS Integers, Sequences, FiniteSets, TLC

VARIABLES
    pc,              \* control position of the running entry point
    variant,         \* "seller" (seller.py, Ozon) or "market" (market.py, Yandex)
    fn,              \* the entry point that runs
    watch_remnants,  \* the supplier feed, a list of rows
    offer_ids,       \* the identifier list object (create_stocks mutates it)
    passed_ids,      \* history: the identifier list as it was passed in / fetched
    lst,             \* divide: the list
    n,               \* divide: the chunk size
    raw_price,       \* price_conversion: the price string
    served,          \* get_offer_ids, history: the results get_product_list returned
    ret,             \* what the call returned or raised, and its trace
    scheme,          \* main: the account of the running pass ("OZON", "FBS", "DBS")
    page,            \* get_offer_ids: the page token (last_id / page)
    product_list,    \* get_offer_ids: the entries accumulated
    stocks,          \* main: the list create_stocks returned
    prices,          \* main: the list create_prices returned
    queue,           \* main: the chunks the running for loop has still to submit
    requests,        \* history: the outbound requests of the pass, with their outcomes
    printed,         \* what main printed
    propagated,      \* the exception that left main ("none": main returned)
    coroutines       \* coroutine objects created and never awaited

call_vars == <<lst, n, raw_price, served, ret>>
main_vars == <<scheme, page, product_list, stocks, prices, queue, requests, printed,
               propagated, coroutines>>
vars == <<pc, variant, fn, watch_remnants, offer_ids, passed_ids, call_vars, main_vars>>

---------------------------------------------------------------------------
(* Bounds of the model *)

MaxFeed == 2      \* rows in a feed
MaxIds == 2       \* entries of an identifier list
NumCodes == 2     \* distinct identifiers
MaxLen == 4       \* divide: length of the list
MaxN == 3         \* divide: largest chunk size
MaxNeg == 2       \* divide: chunk sizes down to -MaxNeg
MaxPrice == 3     \* price_conversion: length of the price string

---------------------------------------------------------------------------
(* Python values *)

Min(a, b) == IF a <= b THEN a ELSE b

Ok(v) == [raised |-> "none", value |-> v]
Raise(e) == [raised |-> e, value |-> <<>>]

\* x in l, for a list l
Contains(l, x) == \E i \in 1..Len(l) : l[i] = x

\* l.remove(x): the list without the first occurrence of x (x is in l)
list_remove_none(l, x) == l
list_remove_all(l, x) == SelectSeq(l, LAMBDA y : y # x)
list_remove(l, x) ==
    LET i == CHOOSE j \in 1..Len(l) : l[j] = x /\ \A k \in 1..(j - 1) : l[k] # x
    IN  SubSeq(l, 1, i - 1) \o SubSeq(l, i + 1, Len(l))

\* l[a:b] for 0 <= a
PySlice(l, a, b) == SubSeq(l, a + 1, Min(b, Len(l)))

Digits == <<"0", "1", "2", "3", "4", "5", "6", "7", "8", "9">>
IsDigit(c) == \E d \in 1..10 : Digits[d] = c
DigitVal(c) == (CHOOSE d \in 1..10 : Digits[d] = c) - 1

RECURSIVE LStrip(_)
LStrip(s) == IF s # <<>> /\ Head(s) = " " THEN LStrip(Tail(s)) ELSE s

RECURSIVE RStrip(_)
RStrip(s) ==
    IF s # <<>> /\ s[Len(s)] = " " THEN RStrip(SubSeq(s, 1, Len(s) - 1)) ELSE s

RECURSIVE DecValue(_)
DecValue(s) ==
    IF s = <<>> THEN 0
    ELSE LET init == SubSeq(s, 1, Len(s) - 1)
             last == s[Len(s)]
         IN  IF last = "_" THEN DecValue(init) ELSE 10 * DecValue(init) + DigitVal(last)

\* int(s) for a string s: surrounding blanks are stripped, one sign is allowed,
\* the digits may be grouped by single underscores; anything else is a ValueError
py_int(s) ==
    LET t == RStrip(LStrip(s))
        signed == t # <<>> /\ t[1] \in {"+", "-"}
        body == IF signed THEN Tail(t) ELSE t
        ok == /\ body # <<>>
              /\ \A i \in 1..Len(body) : IsDigit(body[i]) \/ body[i] = "_"
              /\ IsDigit(body[1]) /\ IsDigit(body[Len(body)])
              /\ \A i \in 1..(Len(body) - 1) : ~(body[i] = "_" /\ body[i + 1] = "_")
    IN  IF ~ok THEN Raise("ValueError")
        ELSE Ok(IF t[1] = "-" THEN 0 - DecValue(body) ELSE DecValue(body))

---------------------------------------------------------------------------
(* seller.price_conversion *)

\* price.split(".")[0]: the part before the first "."
RECURSIVE BeforeDot(_)
BeforeDot(s) ==
    IF s = <<>> \/ Head(s) = "." THEN <<>> ELSE <<Head(s)>> \o BeforeDot(Tail(s))

\* re.sub("[^0-9]", "", s)
StripNonDigits(s) == SelectSeq(s, IsDigit)

price_conversion_whole(price) == StripNonDigits(price)

\* the part before the last "."
RECURSIVE BeforeLastDot(_)
BeforeLastDot(s) ==
    IF s = <<>> THEN <<>>
    ELSE IF s[Len(s)] = "." THEN SubSeq(s, 1, Len(s) - 1)
    ELSE IF \E i \in 1..Len(s) : s[i] = "." THEN BeforeLastDot(SubSeq(s, 1, Len(s) - 1))
    ELSE s
price_conversion_rsplit(price) == StripNonDigits(BeforeLastDot(price))
price_conversion(price) == StripNonDigits(BeforeDot(price))

---------------------------------------------------------------------------
(* seller.divide: the chunks the generator yields when it is consumed *)

\* range(0, len, n) as the list of its values; n = 0 raises when the generator starts
PyRange0(len, step) ==
    IF step = 0 THEN Raise("ValueError")
    ELSE IF step < 0 \/ len = 0 THEN Ok(<<>>)
    ELSE Ok([k \in 1..(((len - 1) \div step) + 1) |-> (k - 1) * step])

divide_long(l, size) ==
    LET r == PyRange0(Len(l), size)
    IN  IF r.raised # "none" THEN r
        ELSE Ok([k \in 1..Len(r.value) |-> PySlice(l, r.value[k], r.value[k] + size + 1)])

divide_floor(l, size) ==
    IF size = 0 THEN Raise("ValueError")
    ELSE IF size < 0 THEN Ok(<<>>)
    ELSE Ok([k \in 1..(Len(l) \div size) |-> PySlice(l, (k - 1) * size, k * size)])

divide(l, size) ==
    LET r == PyRange0(Len(l), size)
    IN  IF r.raised # "none" THEN r
        ELSE Ok([k \in 1..Len(r.value) |-> PySlice(l, r.value[k], r.value[k] + size)])

---------------------------------------------------------------------------
(* create_stocks.  The result also carries the list object after the call  *)
(* (offer_ids) and, as history, the feed rows that were matched (matched). *)

GT10 == <<">", "1", "0">>
ONE == <<"1">>

StocksResult(raised_, value, ids, matched) ==
    [raised |-> raised_, value |-> value, offer_ids |-> ids, matched |-> matched]

seller_stock(offer_id, stock) == [offer_id |-> offer_id, stock |-> stock]

seller_resolve_stock_literal(count) == py_int(count)
seller_resolve_stock_lenient(count) ==
    IF count = GT10 THEN Ok(100)
    ELSE IF count = ONE \/ py_int(count).raised # "none" THEN Ok(0)
    ELSE py_int(count)
seller_resolve_stock(count) ==
    IF count = GT10 THEN Ok(100)
    ELSE IF count = ONE THEN Ok(0)
    ELSE py_int(count)

RECURSIVE seller_stocks_loop(_, _, _, _, _)
seller_stocks_loop(feed, i, acc, ids, matched) ==
    IF i > Len(feed)
    THEN StocksResult("none",
                      acc \o [k \in 1..Len(ids) |-> seller_stock(ids[k], 0)],
                      ids, matched)
    ELSE LET watch == feed[i] IN
         IF ~Contains(ids, watch.Kod)
         THEN seller_stocks_loop(feed, i + 1, acc, ids, matched)
         ELSE LET stock == seller_resolve_stock(watch.Kolichestvo) IN
              IF stock.raised # "none"
              THEN StocksResult(stock.raised, <<>>, ids, matched)
              ELSE seller_stocks_loop(feed, i + 1,
                                      Append(acc, seller_stock(watch.Kod, stock.value)),
                                      list_remove(ids, watch.Kod),
                                      Append(matched, i))

\* the defaulted records put before the feed-derived ones
seller_create_stocks_defaults_first(feed, ids) ==
    LET r == seller_stocks_loop(feed, 1, <<>>, ids, <<>>)
        m == Len(r.matched)
    IN  IF r.raised # "none" THEN r
        ELSE StocksResult("none",
                          SubSeq(r.value, m + 1, Len(r.value)) \o SubSeq(r.value, 1, m),
                          r.offer_ids, r.matched)
seller_create_stocks(feed, ids) == seller_stocks_loop(feed, 1, <<>>, ids, <<>>)

Date == "2024-01-15T10:30:00Z"

market_stock(sku, warehouse_id, stock) ==
    [sku |-> sku, warehouseId |-> warehouse_id,
     items |-> <<[count |-> stock, type |-> "FIT", updatedAt |-> Date]>>]

market_resolve_stock(count) ==
    IF count = GT10 THEN Ok(100)
    ELSE IF count = ONE THEN Ok(0)
    ELSE py_int(count)

RECURSIVE market_stocks_loop(_, _, _, _, _, _)
market_stocks_loop(feed, i, acc, ids, warehouse_id, matched) ==
    IF i > Len(feed)
    THEN StocksResult("none",
                      acc \o [k \in 1..Len(ids) |-> market_stock(ids[k], warehouse_id, 0)],
                      ids, matched)
    ELSE LET watch == feed[i] IN
         IF ~Contains(ids, watch.Kod)
         THEN market_stocks_loop(feed, i + 1, acc, ids, warehouse_id, matched)
         ELSE LET stock == market_resolve_stock(watch.Kolichestvo) IN
              IF stock.raised # "none"
              THEN StocksResult(stock.raised, <<>>, ids, matched)
              ELSE market_stocks_loop(feed, i + 1,
                                      Append(acc,
                                             market_stock(watch.Kod, warehouse_id, stock.value)),
                                      list_remove(ids, watch.Kod),
                                      warehouse_id,
                                      Append(matched, i))

market_create_stocks(feed, ids, warehouse_id) ==
    market_stocks_loop(feed, 1, <<>>, ids, warehouse_id, <<>>)

---------------------------------------------------------------------------
(* create_prices *)

seller_price(offer_id, price) ==
    [auto_action_enabled |-> "UNKNOWN", currency_code |-> "RUB",
     offer_id |-> offer_id, old_price |-> "0", price |-> price]

RECURSIVE seller_prices_loop(_, _, _, _)
seller_prices_loop(feed, i, acc, ids) ==
    IF i > Len(feed) THEN Ok(acc)
    ELSE LET watch == feed[i] IN
         IF ~Contains(ids, watch.Kod)
         THEN seller_prices_loop(feed, i + 1, acc, ids)
         ELSE seller_prices_loop(feed, i + 1,
                                 Append(acc,
                                        seller_price(watch.Kod, price_conversion(watch.Tsena))),
                                 ids)

seller_create_prices(feed, ids) == seller_prices_loop(feed, 1, <<>>, ids)

market_price(id, value) == [id |-> id, price |-> [value |-> value, currencyId |-> "RUR"]]

RECURSIVE market_prices_loop(_, _, _, _)
market_prices_loop(feed, i, acc, ids) ==
    IF i > Len(feed) THEN Ok(acc)
    ELSE LET watch == feed[i] IN
         IF ~Contains(ids, watch.Kod)
         THEN market_prices_loop(feed, i + 1, acc, ids)
         ELSE LET value == py_int(price_conversion(watch.Tsena)) IN
              IF value.raised # "none" THEN Raise(value.raised)
              ELSE market_prices_loop(feed, i + 1,
                                      Append(acc, market_price(watch.Kod, value.value)),
                                      ids)

market_create_prices(feed, ids) == market_prices_loop(feed, 1, <<>>, ids)

---------------------------------------------------------------------------
(* Inputs *)

SeqsUpTo(S, m) == UNION {[1..k -> S] : k \in 0..m}

Codes == 1..NumCodes
\* the identifiers of feed rows: 0 is an identifier no marketplace list holds
FeedCodes == 0..NumCodes

\* quantity strings: the two sentinels, integers, and strings int() rejects
Q7 == <<"7">>
QMinus3 == <<"-", "3">>
Q01 == <<" ", "0", "1">>
Qabc == <<"a", "b", "c">>
Counts == {GT10, ONE, Q7, QMinus3, Q01, Qabc}

\* price strings: "5'990.00 rub.", "1'234.56 rub." (the Cyrillic letters of the
\* currency suffix are written in Latin: no code path tells them apart), "",
\* "07" and ".5"
P5990 == <<"5", "'", "9", "9", "0", ".", "0", "0", " ", "r", "u", "b", ".">>
P1234 == <<"1", "'", "2", "3", "4", ".", "5", "6", " ", "r", "u", "b", ".">>
PEmpty == <<>>
P07 == <<"0", "7">>
PDot5 == <<".", "5">>
Prices == {P5990, P1234, PEmpty, P07, PDot5}

Row(kod, kolichestvo, tsena) == [Kod |-> kod, Kolichestvo |-> kolichestvo, Tsena |-> tsena]

StockRows == {Row(c, q, P5990) : c \in Codes, q \in Counts}
PriceRows == {Row(c, Q7, p) : c \in FeedCodes, p \in Prices}
IdLists == SeqsUpTo(Codes, MaxIds)

Warehouse == "warehouse_fbs"

NoRet == [raised |-> "none", value |-> <<>>]

\* main is not running
MainIdle ==
    /\ scheme = ""
    /\ page = ""
    /\ product_list = <<>>
    /\ stocks = <<>>
    /\ prices = <<>>
    /\ queue = <<>>
    /\ requests = <<>>
    /\ printed = <<>>
    /\ propagated = "none"
    /\ coroutines = 0

---------------------------------------------------------------------------
(* The reconcilers and the chunker called on their own *)

InitStocks ==
    /\ pc = "call"
    /\ fn = "create_stocks"
    /\ variant \in {"seller", "market"}
    /\ watch_remnants \in SeqsUpTo(StockRows, MaxFeed)
    /\ offer_ids \in IdLists
    /\ passed_ids = offer_ids
    /\ lst = <<>>
    /\ n = 1
    /\ raw_price = <<>>
    /\ served = <<>>
    /\ ret = NoRet
    /\ MainIdle

CallCreateStocks ==
    /\ pc = "call"
    /\ fn = "create_stocks"
    /\ LET r == IF variant = "seller"
                THEN seller_create_stocks(watch_remnants, offer_ids)
                ELSE market_create_stocks(watch_remnants, offer_ids, Warehouse)
       IN  /\ ret' = [raised |-> r.raised, value |-> r.value, matched |-> r.matched]
           /\ offer_ids' = r.offer_ids
           /\ pc' = IF r.raised = "none" THEN "returned" ELSE "raised"
    /\ UNCHANGED <<variant, fn, watch_remnants, passed_ids, lst, n, raw_price, served, main_vars>>

SpecStocks == InitStocks /\ [][CallCreateStocks]_vars

InitPrices ==
    /\ pc = "call"
    /\ fn = "create_prices"
    /\ variant \in {"seller", "market"}
    /\ watch_remnants \in SeqsUpTo(PriceRows, MaxFeed)
    /\ offer_ids \in IdLists
    /\ passed_ids = offer_ids
    /\ lst = <<>>
    /\ n = 1
    /\ raw_price = <<>>
    /\ served = <<>>
    /\ ret = NoRet
    /\ MainIdle

CallCreatePrices ==
    /\ pc = "call"
    /\ fn = "create_prices"
    /\ LET r == IF variant = "seller"
                THEN seller_create_prices(watch_remnants, offer_ids)
                ELSE market_create_prices(watch_remnants, offer_ids)
       IN  /\ ret' = r
           /\ pc' = IF r.raised = "none" THEN "returned" ELSE "raised"
    /\ UNCHANGED <<variant, fn, watch_remnants, offer_ids, passed_ids, lst, n, raw_price, served, main_vars>>

SpecPrices == InitPrices /\ [][CallCreatePrices]_vars

InitDivide ==
    /\ pc = "call"
    /\ fn = "divide"
    /\ variant = "seller"
    /\ watch_remnants = <<>>
    /\ offer_ids = <<>>
    /\ passed_ids = <<>>
    /\ lst \in SeqsUpTo(1..2, MaxLen)
    /\ n \in (0 - MaxNeg)..MaxN
    /\ raw_price = <<>>
    /\ served = <<>>
    /\ ret = NoRet
    /\ MainIdle

\* list(divide(lst, n)): the generator is consumed to its end
CallDivide ==
    /\ pc = "call"
    /\ fn = "divide"
    /\ LET r == divide(lst, n)
       IN  /\ ret' = r
           /\ pc' = IF r.raised = "none" THEN "returned" ELSE "raised"
    /\ UNCHANGED <<variant, fn, watch_remnants, offer_ids, passed_ids, lst, n, raw_price, served, main_vars>>

SpecDivide == InitDivide /\ [][CallDivide]_vars

\* the characters of a price string: two digits, the decimal point, the
\* thousands separator, and ARABIC-INDIC DIGIT THREE (written by its code point:
\* a digit that [0-9] does not match)
ArabicThree == "U+0663"
PriceChars == {"5", "0", ".", "'", ArabicThree}

InitConversion ==
    /\ pc = "call"
    /\ fn = "price_conversion"
    /\ variant = "seller"
    /\ watch_remnants = <<>>
    /\ offer_ids = <<>>
    /\ passed_ids = <<>>
    /\ lst = <<>>
    /\ n = 1
    /\ raw_price \in SeqsUpTo(PriceChars, MaxPrice)
    /\ served = <<>>
    /\ ret = NoRet
    /\ MainIdle

CallPriceConversion ==
    /\ pc = "call"
    /\ fn = "price_conversion"
    /\ ret' = Ok(price_conversion(raw_price))
    /\ pc' = "returned"
    /\ UNCHANGED <<variant, fn, watch_remnants, offer_ids, passed_ids, lst, n, raw_price,
                   served, main_vars>>

SpecConversion == InitConversion /\ [][CallPriceConversion]_vars

---------------------------------------------------------------------------
(* The orchestrators: seller.main and market.main *)

MaxPages == 2     \* pages a server hands out before it reports exhaustion

SellerStockBatch == 100
SellerPriceBatch == 900
MarketStockBatch == 2000

\* how an HTTP request ends: a response with a status, or a transport exception
Outcomes == {"200", "500", "ReadTimeout", "ConnectionError"}

\* requests.get / post / put: a transport failure raises
requests_call(outcome) ==
    IF outcome \in {"ReadTimeout", "ConnectionError"} THEN Raise(outcome) ELSE Ok(outcome)

\* response.raise_for_status()
raise_for_status_missing(status) == Ok(status)
raise_for_status(status) == IF status = "200" THEN Ok(status) ELSE Raise("HTTPError")

\* one network call of the clients: the request, then raise_for_status
http(outcome) ==
    LET response == requests_call(outcome)
    IN  IF response.raised # "none" THEN response ELSE raise_for_status(response.value)

\* the except clauses of main: what is printed for exception e
except_clause(e) ==
    CASE e = "ReadTimeout" -> "Timeout"
      [] e = "ConnectionError" -> "Connection error"
      [] OTHER -> "ERROR_2"

\* whether a statement of main stands inside its try block
in_try(variant_, statement) == ~(variant_ = "market" /\ statement = "download_stock")

\* exception e leaves the statement at pc: caught and printed, or out of main
Raised(e) ==
    /\ pc' = "done"
    /\ printed' = IF in_try(variant, pc) THEN Append(printed, except_clause(e)) ELSE printed
    /\ propagated' = IF in_try(variant, pc) THEN "none" ELSE e

StockBatch == IF variant = "seller" THEN SellerStockBatch ELSE MarketStockBatch

\* the warehouse of a scheme
warehouse_id(scheme_) == IF scheme_ = "FBS" THEN "warehouse_fbs" ELSE "warehouse_dbs"

\* the pages a server may hand out: small ones, and as first page one that holds
\* as many entries as a stock batch
Range(a, b) == [k \in 1..(b - a + 1) |-> a + k - 1]
BigPage == Range(NumCodes + 1, NumCodes + StockBatch)
SmallPages == {<<>>, <<1>>, <<2, 1>>}
PageItems(k) == SmallPages \cup (IF k = 1 THEN {BigPage} ELSE {})
Token(k) == "t" \o ToString(k)

\* the feeds the supplier may serve
MainRows == {Row(1, GT10, P5990), Row(2, Qabc, P07), Row(0, Q7, P1234)}
MainFeeds == SeqsUpTo(MainRows, MaxFeed)

\* the requests of the running pass (and the feed download)
OfPass(log) == SelectSeq(log, LAMBDA r : r.campaign \in {scheme, "supplier"})
Request(op, campaign, arg, outcome) ==
    [op |-> op, campaign |-> campaign, arg |-> arg, outcome |-> outcome]

\* the number of the page get_offer_ids asks for next
PageNo == Len(SelectSeq(OfPass(requests), LAMBDA r : r.op = "get_product_list")) + 1

\* seller.get_product_list: result of a successful call (items, total, last_id)
seller_results(k, acc) ==
    UNION {{[items |-> it, total |-> t, last_id |-> Token(k)] :
               t \in {Len(acc) + Len(it)} \cup
                     (IF k < MaxPages THEN {Len(acc) + Len(it) + 1} ELSE {})} :
           it \in PageItems(k)}

\* market.get_product_list: result of a successful call
market_results(k) ==
    {[offerMappingEntries |-> it, paging |-> [nextPageToken |-> tok]] :
        it \in PageItems(k),
        tok \in {"", "None"} \cup (IF k < MaxPages THEN {Token(k)} ELSE {})}

\* `not page` for a token
Falsy_strict(tok) == tok = ""
Falsy(tok) == tok \in {"", "None"}

InitMain ==
    /\ fn = "main"
    /\ variant \in {"seller", "market"}
    /\ pc = IF variant = "seller" THEN "get_offer_ids" ELSE "download_stock"
    /\ scheme = IF variant = "seller" THEN "OZON" ELSE "FBS"
    /\ watch_remnants = <<>>
    /\ offer_ids = <<>>
    /\ passed_ids = <<>>
    /\ lst = <<>>
    /\ n = 1
    /\ raw_price = <<>>
    /\ served = <<>>
    /\ ret = NoRet
    /\ page = ""
    /\ product_list = <<>>
    /\ stocks = <<>>
    /\ prices = <<>>
    /\ queue = <<>>
    /\ requests = <<>>
    /\ printed = <<>>
    /\ propagated = "none"
    /\ coroutines = 0

\* download_stock(): one GET, then the archive is read
DownloadStock ==
    /\ fn = "main"
    /\ pc = "download_stock"
    /\ \E outcome \in Outcomes, feed \in MainFeeds :
           LET r == http(outcome) IN
           /\ requests' = Append(requests, Request("download_stock", "supplier", "", outcome))
           /\ IF r.raised # "none"
              THEN Raised(r.raised) /\ UNCHANGED watch_remnants
              ELSE /\ watch_remnants' = feed
                   /\ pc' = IF variant = "seller" THEN "create_stocks" ELSE "get_offer_ids"
                   /\ UNCHANGED <<printed, propagated>>
    /\ UNCHANGED <<variant, fn, offer_ids, passed_ids, call_vars, scheme, page, product_list,
                   stocks, prices, queue, coroutines>>

\* one turn of the loop of get_offer_ids: a page is requested and added; after the
\* last page the identifiers are returned and assigned to offer_ids.  A pass
\* that starts drops what the pass before it left (the values are dead: each is
\* assigned before it is read again)
GetProductList ==
    /\ fn = "main"
    /\ pc = "get_offer_ids"
    /\ LET starts == \E i \in 1..Len(requests) : requests[i].campaign \notin {scheme, "supplier"}
           live_ids == IF starts THEN <<>> ELSE offer_ids
           live_passed == IF starts THEN <<>> ELSE passed_ids
           live_stocks == IF starts THEN <<>> ELSE stocks
           log == OfPass(requests)
       IN  \E outcome \in Outcomes :
           LET r == http(outcome) IN
           /\ requests' = Append(log, Request("get_product_list", scheme, page, outcome))
           /\ stocks' = live_stocks
           /\ IF r.raised # "none"
              THEN /\ Raised(r.raised)
                   /\ offer_ids' = live_ids
                   /\ passed_ids' = live_passed
                   /\ UNCHANGED <<page, product_list>>
              ELSE /\ UNCHANGED <<printed, propagated>>
                   /\ IF variant = "seller"
                      THEN \E some_prod \in seller_results(PageNo, product_list) :
                               LET all == product_list \o some_prod.items IN
                               IF some_prod.total = Len(all)
                               THEN /\ offer_ids' = all
                                    /\ passed_ids' = all
                                    /\ product_list' = <<>>
                                    /\ page' = ""
                                    /\ pc' = "download_stock"
                               ELSE /\ product_list' = all
                                    /\ page' = some_prod.last_id
                                    /\ offer_ids' = live_ids
                                    /\ passed_ids' = live_passed
                                    /\ pc' = pc
                      ELSE \E some_prod \in market_results(PageNo) :
                               LET all == product_list \o some_prod.offerMappingEntries IN
                               IF Falsy(some_prod.paging.nextPageToken)
                               THEN /\ offer_ids' = all
                                    /\ passed_ids' = all
                                    /\ product_list' = <<>>
                                    /\ page' = ""
                                    /\ pc' = "create_stocks"
                               ELSE /\ product_list' = all
                                    /\ page' = some_prod.paging.nextPageToken
                                    /\ offer_ids' = live_ids
                                    /\ passed_ids' = live_passed
                                    /\ pc' = pc
    /\ UNCHANGED <<variant, fn, watch_remnants, call_vars, scheme, prices, queue, coroutines>>

\* stocks = create_stocks(...), then list(divide(stocks, ...)) of the for loop
CreateStocks ==
    /\ fn = "main"
    /\ pc = "create_stocks"
    /\ LET r == IF variant = "seller"
                THEN seller_create_stocks(watch_remnants, offer_ids)
                ELSE market_create_stocks(watch_remnants, offer_ids, warehouse_id(scheme))
           chunks == divide(r.value, StockBatch).value
       IN  /\ offer_ids' = r.offer_ids
           /\ IF r.raised # "none"
              THEN Raised(r.raised) /\ UNCHANGED <<stocks, queue>>
              ELSE /\ stocks' = r.value
                   /\ queue' = chunks
                   /\ pc' = IF chunks # <<>> THEN "update_stocks"
                            ELSE IF variant = "seller" THEN "create_prices" ELSE "upload_prices"
                   /\ UNCHANGED <<printed, propagated>>
    /\ UNCHANGED <<variant, fn, watch_remnants, passed_ids, call_vars, scheme, page,
                   product_list, prices, requests, coroutines>>

\* update_stocks(some_stock, ...): one turn of the for loop
UpdateStocks ==
    /\ fn = "main"
    /\ pc = "update_stocks"
    /\ \E outcome \in Outcomes :
           LET r == http(outcome) IN
           /\ requests' = Append(requests, Request("update_stocks", scheme, Head(queue), outcome))
           /\ IF r.raised # "none"
              THEN Raised(r.raised) /\ UNCHANGED queue
              ELSE /\ queue' = Tail(queue)
                   /\ pc' = IF Tail(queue) # <<>> THEN "update_stocks"
                            ELSE IF variant = "seller" THEN "create_prices" ELSE "upload_prices"
                   /\ UNCHANGED <<printed, propagated>>
    /\ UNCHANGED <<variant, fn, watch_remnants, offer_ids, passed_ids, call_vars, scheme, page,
                   product_list, stocks, prices, coroutines>>

\* seller.main: prices = create_prices(watch_remnants, offer_ids), then
\* list(divide(prices, 900)) of the for loop
CreatePrices ==
    /\ fn = "main"
    /\ pc = "create_prices"
    /\ LET r == seller_create_prices(watch_remnants, offer_ids)
           chunks == divide(r.value, SellerPriceBatch).value
       IN  /\ prices' = r.value
           /\ queue' = chunks
           /\ pc' = IF chunks # <<>> THEN "update_price" ELSE "done"
    /\ UNCHANGED <<variant, fn, watch_remnants, offer_ids, passed_ids, call_vars, scheme, page,
                   product_list, stocks, requests, printed, propagated, coroutines>>

\* seller.main: update_price(some_price, ...): one turn of the for loop
UpdatePrice ==
    /\ fn = "main"
    /\ pc = "update_price"
    /\ \E outcome \in Outcomes :
           LET r == http(outcome) IN
           /\ requests' = Append(requests, Request("update_price", scheme, Head(queue), outcome))
           /\ IF r.raised # "none"
              THEN Raised(r.raised) /\ UNCHANGED queue
              ELSE /\ queue' = Tail(queue)
                   /\ pc' = IF Tail(queue) # <<>> THEN "update_price" ELSE "done"
                   /\ UNCHANGED <<printed, propagated>>
    /\ UNCHANGED <<variant, fn, watch_remnants, offer_ids, passed_ids, call_vars, scheme, page,
                   product_list, stocks, prices, coroutines>>

\* market.main: upload_prices(watch_remnants, campaign, market_token).  upload_prices
\* is declared async def and the call is not awaited: it makes a coroutine object
\* and runs nothing of its body.  main goes on to the DBS pass, or returns
UploadPrices ==
    /\ fn = "main"
    /\ pc = "upload_prices"
    /\ coroutines' = coroutines + 1
    /\ scheme' = "DBS"
    /\ pc' = IF scheme = "FBS" THEN "get_offer_ids" ELSE "done"
    /\ UNCHANGED <<variant, fn, watch_remnants, offer_ids, passed_ids, call_vars, page,
                   product_list, stocks, prices, queue, requests, printed, propagated>>

NextMain ==
    \/ DownloadStock
    \/ GetProductList
    \/ CreateStocks
    \/ UpdateStocks
    \/ CreatePrices
    \/ UpdatePrice
    \/ UploadPrices

SpecMain == InitMain /\ [][NextMain]_vars

---------------------------------------------------------------------------
(* get_offer_ids called on its own *)

InitOfferIds ==
    /\ fn = "get_offer_ids"
    /\ pc = "loop"
    /\ variant \in {"seller", "market"}
    /\ scheme \in (IF variant = "seller" THEN {"OZON"} ELSE {"FBS", "DBS"})
    /\ watch_remnants = <<>>
    /\ offer_ids = <<>>
    /\ passed_ids = <<>>
    /\ lst = <<>>
    /\ n = 1
    /\ raw_price = <<>>
    /\ served = <<>>
    /\ ret = NoRet
    /\ page = ""
    /\ product_list = <<>>
    /\ stocks = <<>>
    /\ prices = <<>>
    /\ queue = <<>>
    /\ requests = <<>>
    /\ printed = <<>>
    /\ propagated = "none"
    /\ coroutines = 0

\* one turn of `while True`: get_product_list is called with the token, its
\* entries are added and the token is replaced; on the break the identifiers
\* of product_list are returned.  An exception of get_product_list leaves
\* get_offer_ids
GetOfferIds ==
    /\ fn = "get_offer_ids"
    /\ pc = "loop"
    /\ \E outcome \in Outcomes :
           LET r == http(outcome) IN
           /\ requests' = Append(requests, Request("get_product_list", scheme, page, outcome))
           /\ IF r.raised # "none"
              THEN /\ pc' = "raised"
                   /\ ret' = Raise(r.raised)
                   /\ UNCHANGED <<page, product_list, served>>
              ELSE IF variant = "seller"
              THEN \E some_prod \in seller_results(PageNo, product_list) :
                       /\ served' = Append(served, some_prod)
                       /\ product_list' = product_list \o some_prod.items
                       /\ page' = some_prod.last_id
                       /\ IF some_prod.total = Len(product_list')
                          THEN pc' = "returned" /\ ret' = Ok(product_list')
                          ELSE pc' = pc /\ ret' = ret
              ELSE \E some_prod \in market_results(PageNo) :
                       /\ served' = Append(served, some_prod)
                       /\ product_list' = product_list \o some_prod.offerMappingEntries
                       /\ page' = some_prod.paging.nextPageToken
                       /\ IF Falsy(page')
                          THEN pc' = "returned" /\ ret' = Ok(product_list')
                          ELSE pc' = pc /\ ret' = ret
    /\ UNCHANGED <<variant, fn, watch_remnants, offer_ids, passed_ids, lst, n, raw_price,
                   scheme, stocks, prices, queue, printed, propagated, coroutines>>

\* a call runs on: each request is answered or fails, and the loop takes its
\* next turn
SpecOfferIds == InitOfferIds /\ [][GetOfferIds]_vars /\ WF_vars(GetOfferIds)

---------------------------------------------------------------------------
(* What the claims speak of *)

Elems(l) == {l[i] : i \in 1..Len(l)}
Occ(l, x) == Cardinality({i \in 1..Len(l) : l[i] = x})
NoDup(l) == \A i, j \in 1..Len(l) : l[i] = l[j] => i = j

RECURSIVE Concat(_)
Concat(ss) == IF ss = <<>> THEN <<>> ELSE Head(ss) \o Concat(Tail(ss))

\* the identifier and the quantity of a Stock Update Record
RecId(r) == IF variant = "seller" THEN r.offer_id ELSE r.sku
RecQty(r) == IF variant = "seller" THEN r.stock ELSE r.items[1].count

StocksReturned == fn = "create_stocks" /\ pc = "returned"

\* the records of identifier id in the returned list
RecordsOf(id) == {k \in 1..Len(ret.value) : RecId(ret.value[k]) = id}

\* every identifier of the passed-in list has exactly one record, no other
\* identifier has one, and no feed-derived record (the first Len(ret.matched)
\* records) shares its identifier with a defaulted zero record (the others)
OneRecordPerIdentifier ==
    /\ \A id \in Elems(passed_ids) : Cardinality(RecordsOf(id)) = 1
    /\ \A k \in 1..Len(ret.value) : RecId(ret.value[k]) \in Elems(passed_ids)
    /\ \A k \in 1..Len(ret.matched) : \A j \in (Len(ret.matched) + 1)..Len(ret.value) :
           RecId(ret.value[k]) # RecId(ret.value[j])

\* C1 as stated: for every feed whose matched quantities are valid and every
\* identifier list passed in, create_stocks returns exactly one record per
\* identifier of the list and none for any other identifier
C1_Original == StocksReturned => OneRecordPerIdentifier

\* C1 (amended): the same, for every identifier list without repeated identifiers
C1_OneRecordPerIdentifier ==
    (StocksReturned /\ NoDup(passed_ids)) => OneRecordPerIdentifier

\* a feed that names an identifier of the list twice, a list with an identifier
\* the feed does not name
C1_Witness ==
    /\ StocksReturned /\ NoDup(passed_ids)
    /\ \E i, j \in 1..Len(watch_remnants) :
           /\ i # j
           /\ watch_remnants[i].Kod = watch_remnants[j].Kod
           /\ watch_remnants[i].Kod \in Elems(passed_ids)
    /\ \E id \in Elems(passed_ids) : \A i \in 1..Len(watch_remnants) : watch_remnants[i].Kod # id

\* the integer a quantity string of the model denotes in base 10
Base10(count) ==
    CASE count = Q7 -> 7
      [] count = QMinus3 -> 0 - 3
      [] count = Q01 -> 1
      [] count = ONE -> 1
      [] count = GT10 -> 0
      [] count = Qabc -> 0
IntegerCounts == {ONE, Q7, QMinus3, Q01}

ExpectedStock(count) ==
    IF count = GT10 THEN 100 ELSE IF count = ONE THEN 0 ELSE Base10(count)

\* C4: the record of every matched feed row carries 100 for ">10", 0 for "1" and
\* otherwise the base-10 value of the row's quantity string
C4_ResolvedQuantity ==
    StocksReturned =>
        /\ Len(ret.matched) <= Len(ret.value)
        /\ \A k \in 1..Len(ret.matched) :
               LET watch == watch_remnants[ret.matched[k]]
               IN  /\ RecId(ret.value[k]) = watch.Kod
                   /\ RecQty(ret.value[k]) = ExpectedStock(watch.Kolichestvo)

\* both sentinels matched in one call
C4_Witness ==
    /\ StocksReturned
    /\ \E k, j \in 1..Len(ret.matched) :
           /\ watch_remnants[ret.matched[k]].Kolichestvo = GT10
           /\ RecQty(ret.value[k]) = 100
           /\ watch_remnants[ret.matched[j]].Kolichestvo = ONE
           /\ RecQty(ret.value[j]) = 0

\* a quantity string that is neither a sentinel nor a valid integer string
InvalidCount(count) == count \notin ({GT10} \cup IntegerCounts)

\* row i is matched when it is reached: its identifier occurs in the list more
\* often than in the rows before it
MatchedWhenReached(i) ==
    Occ(passed_ids, watch_remnants[i].Kod)
        > Cardinality({j \in 1..(i - 1) : watch_remnants[j].Kod = watch_remnants[i].Kod})

StocksFailed == pc = "raised" /\ ret.raised = "ValueError" /\ ret.value = <<>>

\* C5 as stated: a feed with an invalid quantity string in any row makes
\* create_stocks fail with a ValueError and return no records, for every
\* identifier list
C5_Original ==
    (/\ fn = "create_stocks" /\ pc # "call"
     /\ \E i \in 1..Len(watch_remnants) : InvalidCount(watch_remnants[i].Kolichestvo))
        => StocksFailed

\* C5 (amended): create_stocks fails with a ValueError and returns no records
\* exactly when some row with an invalid quantity string is matched, wherever
\* the row stands and whether or not earlier rows were matched; an invalid
\* quantity in an unmatched row is never parsed
C5_FailsOnMatchedInvalid ==
    (fn = "create_stocks" /\ pc # "call") =>
        /\ (\E i \in 1..Len(watch_remnants) :
                /\ InvalidCount(watch_remnants[i].Kolichestvo)
                /\ MatchedWhenReached(i))
           <=> pc = "raised"
        /\ pc = "raised" => StocksFailed

\* the invalid row comes after a row that was matched
C5_Witness ==
    /\ fn = "create_stocks" /\ StocksFailed
    /\ Len(ret.matched) >= 1
    /\ offer_ids # passed_ids

\* the rows create_prices has to answer: those whose identifier is in the set
PricedRows == SelectSeq(watch_remnants, LAMBDA watch : watch.Kod \in Elems(passed_ids))

\* the normalized price of a price string of the model, as digits and as a number
Normalized(price) ==
    CASE price = P5990 -> <<"5", "9", "9", "0">>
      [] price = P1234 -> <<"1", "2", "3", "4">>
      [] price = P07 -> <<"0", "7">>
      [] price \in {PEmpty, PDot5} -> <<>>
NormalizedValue(price) ==
    CASE price = P5990 -> 5990
      [] price = P1234 -> 1234
      [] price = P07 -> 7
      [] price \in {PEmpty, PDot5} -> 0

\* one record per priced row, in feed order, with the row's normalized price
PriceRecordsAsExpected ==
    /\ pc = "returned"
    /\ Len(ret.value) = Len(PricedRows)
    /\ \A k \in 1..Len(PricedRows) :
           IF variant = "seller"
           THEN /\ ret.value[k].offer_id = PricedRows[k].Kod
                /\ ret.value[k].price = Normalized(PricedRows[k].Tsena)
                /\ ret.value[k].old_price = "0"
                /\ ret.value[k].currency_code = "RUB"
                /\ ret.value[k].auto_action_enabled = "UNKNOWN"
           ELSE /\ ret.value[k].id = PricedRows[k].Kod
                /\ ret.value[k].price.value = NormalizedValue(PricedRows[k].Tsena)
                /\ ret.value[k].price.currencyId = "RUR"

\* C2 as stated: for every feed and identifier set, create_prices (both
\* variants) returns one record per feed row whose identifier is in the set, in
\* feed order, with the normalized price; other rows and other identifiers
\* produce no record
C2_Original == (fn = "create_prices" /\ pc # "call") => PriceRecordsAsExpected

\* some priced row's price normalizes to the empty string
SomePriceEmpty == \E k \in 1..Len(PricedRows) : Normalized(PricedRows[k].Tsena) = <<>>

\* C2 (amended): the same for seller.create_prices, and for market.create_prices
\* whenever the normalized price of every row whose identifier is in the set
\* holds a digit; otherwise market.create_prices raises ValueError and returns
\* nothing.  The identifier list is left as it was
C2_PriceRecords ==
    (fn = "create_prices" /\ pc # "call") =>
        /\ offer_ids = passed_ids
        /\ IF variant = "market" /\ SomePriceEmpty
           THEN pc = "raised" /\ ret.raised = "ValueError" /\ ret.value = <<>>
           ELSE PriceRecordsAsExpected

\* one row priced, one row skipped, one identifier of the set without a row
C2_Witness ==
    /\ fn = "create_prices" /\ pc = "returned" /\ variant = "market"
    /\ Len(watch_remnants) = 2
    /\ \E i \in 1..Len(watch_remnants) : watch_remnants[i].Kod \notin Elems(passed_ids)
    /\ Len(ret.value) = 1
    /\ ret.value[1].price.value = 5990
    /\ \E id \in Elems(passed_ids) : \A i \in 1..Len(watch_remnants) : watch_remnants[i].Kod # id

\* C3: for n > 0 the chunks of divide(lst, n), concatenated, are lst; every
\* chunk but the last has n elements, the last has 1..n, and an empty list
\* yields no chunk
C3_Chunks ==
    (fn = "divide" /\ pc # "call" /\ n > 0) =>
        /\ pc = "returned"
        /\ Concat(ret.value) = lst
        /\ \A k \in 1..(Len(ret.value) - 1) : Len(ret.value[k]) = n
        /\ ret.value # <<>> =>
               (Len(ret.value[Len(ret.value)]) >= 1 /\ Len(ret.value[Len(ret.value)]) <= n)
        /\ lst = <<>> => ret.value = <<>>

\* a full chunk followed by a shorter last chunk
C3_Witness ==
    /\ fn = "divide" /\ pc = "returned"
    /\ n = 2 /\ Len(lst) = 3
    /\ Len(ret.value) = 2
    /\ Len(ret.value[2]) = 1

---------------------------------------------------------------------------
(* The claims about the orchestrators *)

\* main has ended and no call of the run failed
FailureFree == pc = "done" /\ propagated = "none" /\ printed = <<>>

\* the batches handed to update_stocks / update_price in the pass, in order
Batches(op) ==
    LET sent == SelectSeq(requests, LAMBDA r : r.op = op)
    IN  [k \in 1..Len(sent) |-> sent[k].arg]

FeedCodesOf(feed) == {feed[i].Kod : i \in 1..Len(feed)}

\* C6: the list create_stocks consumed is not used again: seller.main hands
\* create_prices the complete listing, and in a failure-free run every identifier
\* that is both in the feed and in the listing gets a price record
C6_PricesForListing ==
    (fn = "main" /\ variant = "seller") =>
        /\ pc = "create_prices" =>
               \A id \in Elems(passed_ids) : Occ(offer_ids, id) = Occ(passed_ids, id)
        /\ FailureFree =>
               \A id \in Elems(passed_ids) \cap FeedCodesOf(watch_remnants) :
                   /\ \E k \in 1..Len(prices) : prices[k].offer_id = id
                   /\ \E k \in 1..Len(Concat(Batches("update_price"))) :
                          Concat(Batches("update_price"))[k].offer_id = id

\* a pass of market.main has just ended and no call of the run failed: the FBS
\* pass when the DBS pass has not yet asked for its first page, the DBS pass
\* when main has returned
MarketPassEnded ==
    /\ fn = "main" /\ variant = "market"
    /\ propagated = "none" /\ printed = <<>>
    /\ \/ pc = "done"
       \/ /\ pc = "get_offer_ids" /\ scheme = "DBS"
          /\ \E i \in 1..Len(requests) : requests[i].campaign = "FBS"

Rank(op) ==
    CASE op = "download_stock" -> 0
      [] op = "get_product_list" -> 1
      [] op = "update_stocks" -> 2
      [] op = "update_price" -> 3

\* C7: in a failure-free run of market.main each pass lists the identifiers,
\* then submits every stock chunk, then reconciles the prices and submits every
\* price chunk: when the pass ends every price record of the scheme has gone
\* through update_price
C7_PricesSubmitted ==
    MarketPassEnded =>
        /\ \A i, j \in 1..Len(requests) :
               i < j => Rank(requests[i].op) <= Rank(requests[j].op)
        /\ Concat(Batches("update_stocks")) = stocks
        /\ LET expected == market_create_prices(watch_remnants, passed_ids)
           IN  expected.raised = "none" =>
                   Concat(Batches("update_price")) = expected.value

\* C8: a request that failed is the last request of the pass: no later chunk is
\* submitted, the failed chunk is not sent again, and main has ended
C8_NoRequestAfterFailure ==
    fn = "main" =>
        \A i \in 1..Len(requests) :
            requests[i].outcome # "200" => (i = Len(requests) /\ pc = "done")

\* the first of two stock chunks succeeded, the second failed and nothing follows
C8_Witness ==
    /\ fn = "main" /\ pc = "done"
    /\ Len(queue) >= 1
    /\ Len(Batches("update_stocks")) = 2
    /\ requests[Len(requests)].op = "update_stocks"
    /\ requests[Len(requests)].outcome # "200"
    /\ requests[Len(requests)].arg = Head(queue)

\* C9: every transport or HTTP-status error of a network call of a run is caught
\* inside main and printed; main returns normally
C9_ErrorsCaught ==
    (fn = "main" /\ pc = "done") =>
        /\ propagated = "none"
        /\ (\E i \in 1..Len(requests) : requests[i].outcome # "200") => Len(printed) = 1

\* the batch-size limit of the call site of a submit request
BatchLimit(r) ==
    IF r.op = "update_price" THEN SellerPriceBatch
    ELSE IF variant = "seller" THEN SellerStockBatch ELSE MarketStockBatch

\* the chunks submitted with success so far
SentOk(op) ==
    LET sent == SelectSeq(requests, LAMBDA r : r.op = op /\ r.outcome = "200")
    IN  [k \in 1..Len(sent) |-> sent[k].arg]

\* the stock loop of the pass has run to its end
StocksSubmitted ==
    \/ pc \in {"create_prices", "update_price", "upload_prices"}
    \/ FailureFree
    \/ pc = "get_offer_ids" /\ variant = "market" /\ scheme = "DBS"

\* C10: every batch handed to update_stocks or update_price is non-empty and
\* within the limit of its call site; while a loop runs, the chunks sent and the
\* chunks still queued make up the reconciler's list, and once it has run to its
\* end the batches submitted, concatenated, are the reconciler's list
C10_Batches ==
    fn = "main" =>
        /\ \A i \in 1..Len(requests) :
               requests[i].op \in {"update_stocks", "update_price"} =>
                   /\ Len(requests[i].arg) >= 1
                   /\ Len(requests[i].arg) <= BatchLimit(requests[i])
        /\ pc = "update_stocks" => Concat(SentOk("update_stocks")) \o Concat(queue) = stocks
        /\ pc = "update_price" => Concat(SentOk("update_price")) \o Concat(queue) = prices
        /\ StocksSubmitted => Concat(Batches("update_stocks")) = stocks
        /\ FailureFree => Concat(Batches("update_price")) = prices

\* a failure-free run of seller.main that submitted a full stock batch and the rest
C10_Witness ==
    /\ fn = "main" /\ variant = "seller" /\ FailureFree
    /\ Len(Batches("update_stocks")) = 2
    /\ Len(Batches("update_stocks")[1]) = SellerStockBatch
    /\ Len(Batches("update_stocks")[2]) = 1

---------------------------------------------------------------------------
(* The identifier list after create_stocks *)

\* the feed rows create_stocks matched that carry identifier id
MatchedRows(id) == {k \in 1..Len(ret.matched) : watch_remnants[ret.matched[k]].Kod = id}

\* entry i of the passed-in list is still in the list: the entries of its
\* identifier before it were enough for the matched rows of that identifier
Unmatched(i) ==
    Cardinality({j \in 1..(i - 1) : passed_ids[j] = passed_ids[i]})
        >= Cardinality(MatchedRows(passed_ids[i]))

\* the passed-in list without its matched entries, in its order
RECURSIVE UnmatchedFrom(_)
UnmatchedFrom(i) ==
    IF i > Len(passed_ids) THEN <<>>
    ELSE (IF Unmatched(i) THEN <<passed_ids[i]>> ELSE <<>>) \o UnmatchedFrom(i + 1)

\* C11 as stated: after create_stocks returns successfully the identifier list
\* that was passed in is empty, for every feed and every identifier list
C11_Original == StocksReturned => offer_ids = <<>>

\* C11 (amended): after create_stocks returns successfully the identifier list
\* that was passed in holds exactly its entries that no feed row matched, in
\* their original order (a matched row removes the first entry of its
\* identifier); it is empty only when every entry was matched
C11_UnmatchedRemain ==
    StocksReturned =>
        /\ offer_ids = UnmatchedFrom(1)
        /\ Len(offer_ids) = Len(passed_ids) - Len(ret.matched)
        /\ \A id \in Elems(passed_ids) :
               (\A i \in 1..Len(watch_remnants) : watch_remnants[i].Kod # id)
                   => Occ(offer_ids, id) = Occ(passed_ids, id)

\* an identifier without a feed row stays, the matched one before it is gone
C11_Witness ==
    /\ StocksReturned
    /\ Len(passed_ids) = 2 /\ Len(ret.matched) = 1
    /\ watch_remnants[ret.matched[1]].Kod = passed_ids[1]
    /\ offer_ids = <<passed_ids[2]>>
    /\ passed_ids[2] # passed_ids[1]

---------------------------------------------------------------------------
(* divide with a chunk size that is not positive *)

\* C12: for every list and every chunk size n <= 0, consuming divide(lst, n)
\* fails with a ValueError; it never ends normally with zero chunks
C12_FailsOnNonPositive ==
    (fn = "divide" /\ pc # "call" /\ n <= 0) =>
        (pc = "raised" /\ ret.raised = "ValueError")

---------------------------------------------------------------------------
(* price_conversion on its own *)

AsciiDigits == {"0", "1", "2", "3", "4", "5", "6", "7", "8", "9"}

\* the position of the first "." of s, or Len(s) + 1 when s has none
FirstDot(s) ==
    IF \E i \in 1..Len(s) : s[i] = "."
    THEN CHOOSE i \in 1..Len(s) : s[i] = "." /\ \A j \in 1..(i - 1) : s[j] # "."
    ELSE Len(s) + 1

\* the ASCII digits among the first k characters of s, in their order
RECURSIVE DigitsUpTo(_, _)
DigitsUpTo(s, k) ==
    IF k = 0 THEN <<>>
    ELSE DigitsUpTo(s, k - 1) \o (IF s[k] \in AsciiDigits THEN <<s[k]>> ELSE <<>>)

ConversionReturned == fn = "price_conversion" /\ pc # "call"

\* C13: price_conversion returns the ASCII digits of the part of the string
\* before its first "." (of the whole string when it has none), in their order;
\* the result holds ASCII digits only, price_conversion leaves a result
\* unchanged, and no exception is raised
C13_DigitsBeforeDot ==
    ConversionReturned =>
        /\ pc = "returned" /\ ret.raised = "none"
        /\ ret.value = DigitsUpTo(raw_price, FirstDot(raw_price) - 1)
        /\ \A k \in 1..Len(ret.value) : ret.value[k] \in AsciiDigits
        /\ price_conversion(ret.value) = ret.value

\* the fraction is cut off and a non-ASCII digit is dropped
C13_Witness ==
    /\ ConversionReturned
    /\ raw_price = <<ArabicThree, "5", ".">>
    /\ ret.value = <<"5">>

---------------------------------------------------------------------------
(* The sign of a resolved quantity *)

\* every quantity string of the feed is a sentinel or a valid integer string
FeedQuantitiesValid ==
    \A i \in 1..Len(watch_remnants) :
        watch_remnants[i].Kolichestvo \in ({GT10} \cup IntegerCounts)

\* C14: for every feed whose quantity strings are sentinels or valid integer
\* strings (negative ones included), every record create_stocks returns carries
\* a quantity that is a non-negative integer
C14_NonNegativeQuantity ==
    (StocksReturned /\ FeedQuantitiesValid) =>
        \A k \in 1..Len(ret.value) : RecQty(ret.value[k]) \in Nat

---------------------------------------------------------------------------
(* The order of the records create_stocks returns *)

\* row i is the first row of the feed with its identifier, and the identifier
\* is in the passed-in list
FirstRow(i) ==
    /\ watch_remnants[i].Kod \in Elems(passed_ids)
    /\ \A j \in 1..(i - 1) : watch_remnants[j].Kod # watch_remnants[i].Kod

\* the first rows from row i on, in feed order
RECURSIVE FirstRowsFrom(_)
FirstRowsFrom(i) ==
    IF i > Len(watch_remnants) THEN <<>>
    ELSE (IF FirstRow(i) THEN <<i>> ELSE <<>>) \o FirstRowsFrom(i + 1)

\* the identifiers of the passed-in list that no feed row carries, in list order
DefaultIds == SelectSeq(passed_ids, LAMBDA id : id \notin FeedCodesOf(watch_remnants))

\* the feed-derived records of the first rows in feed order, then the zero
\* records of the identifiers without a row in list order
OrderedAsStated ==
    LET rows == FirstRowsFrom(1)
    IN  /\ Len(ret.value) = Len(rows) + Len(DefaultIds)
        /\ \A k \in 1..Len(rows) :
               /\ RecId(ret.value[k]) = watch_remnants[rows[k]].Kod
               /\ RecQty(ret.value[k]) = ExpectedStock(watch_remnants[rows[k]].Kolichestvo)
        /\ \A k \in 1..Len(DefaultIds) :
               /\ RecId(ret.value[Len(rows) + k]) = DefaultIds[k]
               /\ RecQty(ret.value[Len(rows) + k]) = 0

\* C16 as stated: the returned list holds first the feed-derived records in
\* feed order, only the first row of an identifier yielding a record, then the
\* zero records of the identifiers that matched no row, in list order
C16_Original == StocksReturned => OrderedAsStated

\* C16 (amended): the same, for every identifier list without repeated identifiers
C16_Ordering == (StocksReturned /\ NoDup(passed_ids)) => OrderedAsStated

\* both rows carry the second identifier of the list: the first row yields the
\* record, the zero record of the first identifier follows it
C16_Witness ==
    /\ StocksReturned /\ NoDup(passed_ids)
    /\ Len(passed_ids) = 2 /\ Len(watch_remnants) = 2
    /\ watch_remnants[1].Kod = passed_ids[2]
    /\ watch_remnants[2].Kod = passed_ids[2]
    /\ watch_remnants[1].Kolichestvo = Q7 /\ watch_remnants[2].Kolichestvo = GT10
    /\ Len(ret.value) = 2
    /\ RecId(ret.value[1]) = passed_ids[2] /\ RecQty(ret.value[1]) = 7
    /\ RecId(ret.value[2]) = passed_ids[1] /\ RecQty(ret.value[2]) = 0

---------------------------------------------------------------------------
(* The paging of get_offer_ids *)

\* the entries and the next-page token of the k-th result served
ServedItems(k) ==
    IF variant = "seller" THEN served[k].items ELSE served[k].offerMappingEntries
ServedToken(k) ==
    IF variant = "seller" THEN served[k].last_id ELSE served[k].paging.nextPageToken

RECURSIVE ServedUpTo(_)
ServedUpTo(k) == IF k = 0 THEN <<>> ELSE ServedUpTo(k - 1) \o ServedItems(k)

\* the k-th result tells that no pages remain: Ozon reports a total that the
\* entries served so far reach, Yandex an empty or absent next-page token
SignalsEnd(k) ==
    IF variant = "seller"
    THEN served[k].total = Len(ServedUpTo(k))
    ELSE ServedToken(k) \in {"", "None"}

\* the first page is asked for with the empty token, each following page with
\* the token of the result before it; the loop goes on after a result exactly
\* when the result does not signal the end; the list returned is the entries
\* of all results in page order
PagedInOrder ==
    /\ \A k \in 1..Len(requests) :
           /\ requests[k].op = "get_product_list"
           /\ k - 1 <= Len(served)
           /\ requests[k].arg = IF k = 1 THEN "" ELSE ServedToken(k - 1)
    /\ \A k \in 1..Len(served) : SignalsEnd(k) <=> (k = Len(served) /\ pc = "returned")
    /\ pc = "returned" => (ret.raised = "none" /\ ret.value = ServedUpTo(Len(served)))

\* C15: get_offer_ids ends for every server that signals the end of the pages
\* (it returns, or an exception of a request leaves it); the first page is
\* asked for with the empty token and each following page with the token
\* returned by the page before; the identifiers of all accumulated entries are
\* returned in page order
C15_TerminatesPaged ==
    /\ <>(pc \in {"returned", "raised"})
    /\ [](fn = "get_offer_ids" => PagedInOrder)

\* two pages were served, the second asked for with the token of the first
C15_Witness ==
    /\ fn = "get_offer_ids" /\ pc = "returned"
    /\ Len(served) = 2
    /\ requests[1].arg = "" /\ requests[2].arg = Token(1)
    /\ ServedItems(1) = <<2, 1>> /\ ServedItems(2) = <<1>>
    /\ ret.value = <<2, 1, 1>>

=============================================================================
